---- MODULE Spec2Model ----
(***************************************************************************)
(* Model of offboard_node.cpp: the MAVROS offboard mission node that waits *)
(* for the FCU connection, streams 100 warm-up setpoints and then runs the *)
(* 20 Hz control loop (command arbitration, phase machine, publish).       *)
(*                                                                         *)
(* Time.  ros::Time values are integers counted in clock ticks of one 5.0 s *)
(* request window each (TickMs).  The program only ever uses               *)
(* differences "now - last_request" and "now - phase_start_time", so the   *)
(* model keeps these two differences (the ages of the two timestamps, as   *)
(* read at the top of the next loop iteration) and saturates them above    *)
(* the largest threshold they are compared with.                           *)
(*                                                                         *)
(* Lengths are millimetres, angles milliradians, sin/cos are fixed-point   *)
(* values in thousandths.                                                  *)
(***************************************************************************)
EXTENDS Integers, Sequences, FiniteSets, TLC

\* ------------------------------------------------------------------ bounds
\* most ticks one loop iteration can take (blocking service call + sleep)
MaxStep == 1
\* failed OFFBOARD/arm requests are counted up to this number
MaxFailures == 2

\* ------------------------------------------------------- program constants
TAKEOFF_Z == 6000
RADIUS == 15000
ANGULAR_SPEED == 300
PHASE_TAKEOFF == 1
PHASE_FIGURE8 == 2
PHASE_LAND == 3
PHASE_COMPLETE == 4
\* for(int i = 0; ros::ok() && i < 100; i++)
WARMUP_ITERATIONS == 100
\* ros::Duration(5.0), in milliseconds
REQUEST_PERIOD == 5000
\* time_in_phase >= 15.0, in milliseconds
TAKEOFF_DURATION == 15000
\* M_PI, in microradians
M_PI == 3141593

\* milliseconds in one tick of the modelled clock: one request window
TickMs == REQUEST_PERIOD

\* flight modes a status message can report
Modes == {"OFFBOARD", "AUTO.LAND"}

\* mavros_msgs::State as received on mavros/state
StateMsgs == [connected : BOOLEAN, armed : BOOLEAN, mode : Modes]

\* ------------------------------------------------------------------- state
VARIABLES
    pc,                \* position of main: "connect", "warmup", "loop", "done"
    i,                 \* warm-up loop counter
    current_state,     \* latest mavros_msgs::State stored by state_cb
    current_phase,     \* mission phase
    pose,              \* target pose (position only)
    last_request_age,  \* now - last_request at the top of the next iteration
    phase_start_age,   \* now - phase_start_time at the top of the next iteration
    \* what the last iteration did (outputs of the iteration)
    request,           \* OFFBOARD/arm request issued: "NONE", "OFFBOARD", "ARM"
    response,          \* whether that call succeeded (call() && response flag)
    land_request,      \* whether the AUTO.LAND request was issued
    land_response,     \* whether the AUTO.LAND call succeeded
    publish_count,     \* setpoints published by the last iteration
    published,         \* the sequence of setpoints published by the last iteration
    retest_delay,      \* ticks between the two window tests of the last iteration
    call_time,         \* ticks the OFFBOARD/arm call of the last iteration took
    elapsed,           \* ticks the whole last iteration took
    \* history of the run
    command_age,       \* ticks since the start of the last service request of any kind
    gated_age,         \* ticks since the start of the last OFFBOARD or arm request
    figure8_age,       \* ticks since the iteration that entered Figure8 (in Land:
                       \* the ticks Figure8 lasted)
    figure8_steady,    \* every iteration since entering Figure8 was phase-evaluated
    land_calls,        \* number of AUTO.LAND requests so far
    failures,          \* number of failed OFFBOARD/arm requests so far (saturating)
    ros_ok,            \* ros::ok(): no shutdown was signalled
    connected_seen,    \* state_cb has stored a message with connected = true
    loop_age,          \* ticks since the warm-up ended (saturating)
    takeoff_evals,     \* phase-evaluated iterations that started in Takeoff (up to 2;
                       \* kept until the iteration after Takeoff ends)
    figure8_time       \* a time in phase Figure8 in milliseconds, the input of the
                       \* trajectory computation of SpecTrajectory

vars == << pc, i, current_state, current_phase, pose, last_request_age,
           phase_start_age, request, response, land_request, land_response,
           publish_count, retest_delay, call_time,
           elapsed, command_age, gated_age, figure8_age, figure8_steady,
           land_calls, failures, published, ros_ok, connected_seen, loop_age,
           takeoff_evals, figure8_time >>

\* ------------------------------------------------------------------ helpers
Sat(x, cap) == IF x > cap THEN cap ELSE x

\* integer quotient rounded towards zero
Quot(a, b) == IF a >= 0 THEN a \div b ELSE -((-a) \div b)

\* a duration of `ticks` clock ticks is longer than `ms` milliseconds
DurationGT(ticks, ms) == ticks * TickMs > ms

\* a duration of `ticks` clock ticks is at least `ms` milliseconds
DurationGE(ticks, ms) == ticks * TickMs >= ms

\* toSec() of a duration of `ticks` ticks, in milliseconds
ToMs(ticks) == ticks * TickMs

\* ------------------------------------------------------- trajectory (pure)
\* a / b rounded up, for a >= 0
CeilDiv(a, b) == (a + b - 1) \div b

\* std::sin on [0, pi/2]: x and the result in units of 1/10000. The series
\* x - x^3/3! + x^5/5! - x^7/7! is evaluated with every rounding toward a
\* smaller result, so the value is never above the sine
SinTaylor(x) ==
    LET x2lo == (x * x) \div 10000
        x2hi == CeilDiv(x * x, 10000)
        x3lo == (x2lo * x) \div 10000
        x3hi == CeilDiv(x2hi * x, 10000)
        t3 == CeilDiv(x3hi, 6)
        t5lo == ((x3lo * x2lo) \div 10000) \div 120
        t5hi == CeilDiv(CeilDiv(x3hi * x2hi, 10000), 120)
        t7 == CeilDiv(t5hi * x2hi, 420000)
        v == x - t3 + t5lo - t7
    IN  IF v < 0 THEN 0 ELSE v

\* std::sin of an angle f >= 0 in units of 1/10000 rad; the result in
\* thousandths, rounded toward zero
SinAt(f) ==
    LET pi_lo == M_PI \div 100
        pi_hi == pi_lo + 1
        half == M_PI \div 200
        two_pi_lo == (2 * M_PI) \div 100
        two_pi_hi == two_pi_lo + 1
        r == f % two_pi_hi
    IN  IF r <= half THEN Quot(SinTaylor(r), 10)
        ELSE IF r <= pi_lo THEN Quot(SinTaylor(pi_lo - r), 10)
        ELSE IF r <= pi_hi + half THEN -Quot(SinTaylor(r - pi_hi), 10)
        ELSE -Quot(SinTaylor(two_pi_lo - r), 10)

\* std::sin of an angle a >= 0 in milliradians, result in thousandths
Sin(a) == SinAt(10 * a)

\* std::cos of an angle a >= 0 in milliradians, result in thousandths
Cos(a) == SinAt(10 * a + (M_PI \div 200))

\* const double required_figure8_duration = (2.0 * M_PI) / ANGULAR_SPEED,
\* in milliseconds rounded down (the exact value, 20943.95.. ms, is no whole
\* number of milliseconds)
required_figure8_duration == (2 * M_PI) \div ANGULAR_SPEED

\* angle = ANGULAR_SPEED * figure8_time, in milliradians, for a
\* figure8_time of ms milliseconds
AngleAt(ms) == (ANGULAR_SPEED * ms) \div 1000

\* angle = ANGULAR_SPEED * figure8_time, in milliradians
Angle(t) == AngleAt(ToMs(t))

\* variant: y is computed without the cos factor
Figure8PoseAt_NoCos(ms) ==
    LET x == Quot(RADIUS * Sin(AngleAt(ms)), 1000)
    IN  [x |-> x, y |-> x, z |-> TAKEOFF_Z]

\* the Lemniscate of Gerono target computed in case PHASE_FIGURE8 for a
\* figure8_time of ms milliseconds
Figure8PoseAt(ms) ==
    LET x == Quot(RADIUS * Sin(AngleAt(ms)), 1000)
    IN  [x |-> x, y |-> Quot(x * Cos(AngleAt(ms)), 1000), z |-> TAKEOFF_Z]

\* the same target for a figure8_time of t clock ticks
Figure8Pose(t) == Figure8PoseAt(ToMs(t))

\* ----------------------------------------------------- loop logic (pure)
\* variant: the window test written with >= instead of >
RequestDue_AtLeast(age) == DurationGE(age, REQUEST_PERIOD)

\* ros::Time::now() - last_request > ros::Duration(5.0)
RequestDue(age) == DurationGT(age, REQUEST_PERIOD)

\* variant: the threshold test is time_in_phase > 15.0
TakeoffDone_Strict(t) == DurationGT(t, TAKEOFF_DURATION)

\* time_in_phase >= 15.0
TakeoffDone(t) == DurationGE(t, TAKEOFF_DURATION)

\* variant: the exit test uses M_PI / ANGULAR_SPEED, half a loop
Figure8Done_HalfLoop(t) == DurationGT(t, M_PI \div ANGULAR_SPEED)

\* figure8_time >= required_figure8_duration (a whole number of milliseconds
\* is >= 20943.95.. exactly when it is > 20943)
Figure8Done(t) == DurationGT(t, required_figure8_duration)

\* the if / else of step 1: which request this iteration sends; age is
\* now - last_request at the first test, age2 at the test of the else branch
Arbitrate(st, age, age2) ==
    IF st.mode # "OFFBOARD" /\ RequestDue(age) THEN "OFFBOARD"
    ELSE IF ~st.armed /\ RequestDue(age2) THEN "ARM"
    ELSE "NONE"

\* variant: last_request is updated only inside the success branch
LastRequestAfter_OnSuccessOnly(req, resp, age) ==
    IF req # "NONE" /\ resp THEN 0 ELSE age

\* last_request = ros::Time::now() after a request, whatever its outcome;
\* age is now - last_request when the call has returned
LastRequestAfter(req, resp, age) == IF req # "NONE" THEN 0 ELSE age

\* variant: phase_start_time is reset after the call whatever its outcome
PhaseStartAfterRequest_AnyOutcome(req, resp, age) ==
    IF req = "OFFBOARD" THEN 0 ELSE age

\* phase_start_time = ros::Time::now() after a successful OFFBOARD request
PhaseStartAfterRequest(req, resp, age) ==
    IF req = "OFFBOARD" /\ resp THEN 0 ELSE age

\* variant: the phase is evaluated only while the status says connected
PhaseEvaluated_WhileConnected(st) ==
    st.connected /\ st.armed /\ st.mode = "OFFBOARD"

\* variant: the mode test is missing from the condition
PhaseEvaluated_ArmedOnly(st) == st.armed

\* if (current_state.armed && current_state.mode == "OFFBOARD")
PhaseEvaluated(st) == st.armed /\ st.mode = "OFFBOARD"

\* variant: Figure8 goes straight to PHASE_COMPLETE
PhaseAfter_SkipLand(phase, t) ==
    CASE phase = PHASE_TAKEOFF ->
            IF DurationGE(t, TAKEOFF_DURATION) THEN PHASE_FIGURE8 ELSE phase
      [] phase = PHASE_FIGURE8 ->
            IF DurationGT(t, required_figure8_duration) THEN PHASE_COMPLETE ELSE phase
      [] phase = PHASE_LAND -> PHASE_COMPLETE
      [] OTHER -> phase

\* current_phase after the switch, t = time_in_phase
PhaseAfter(phase, t) ==
    CASE phase = PHASE_TAKEOFF -> IF TakeoffDone(t) THEN PHASE_FIGURE8 ELSE phase
      [] phase = PHASE_FIGURE8 -> IF Figure8Done(t) THEN PHASE_LAND ELSE phase
      [] phase = PHASE_LAND -> PHASE_COMPLETE
      [] OTHER -> phase

\* variant: x and y are not set back to 0 when the loop is finished
PoseAfter_NoRecentre(phase, t, p) ==
    CASE phase = PHASE_TAKEOFF -> [x |-> 0, y |-> 0, z |-> TAKEOFF_Z]
      [] phase = PHASE_FIGURE8 -> Figure8Pose(t)
      [] OTHER -> p

\* pose after the switch
PoseAfter(phase, t, p) ==
    CASE phase = PHASE_TAKEOFF -> [x |-> 0, y |-> 0, z |-> TAKEOFF_Z]
      [] phase = PHASE_FIGURE8 ->
            IF Figure8Done(t) THEN [Figure8Pose(t) EXCEPT !.x = 0, !.y = 0]
            ELSE Figure8Pose(t)
      [] OTHER -> p

\* variant: case PHASE_TAKEOFF changes the phase and leaves phase_start_time
PhaseStartAfterSwitch_NoReset(phase, t, age) == age

\* variant: phase_start_time is also reset when Figure8 ends
PhaseStartAfterSwitch_AlsoAtLand(phase, t, age) ==
    IF \/ phase = PHASE_TAKEOFF /\ DurationGE(t, TAKEOFF_DURATION)
       \/ phase = PHASE_FIGURE8 /\ DurationGT(t, required_figure8_duration)
    THEN 0 ELSE age

\* phase_start_time after the switch; age is now - phase_start_time
PhaseStartAfterSwitch(phase, t, age) ==
    IF phase = PHASE_TAKEOFF /\ TakeoffDone(t) THEN 0 ELSE age

\* variant: the request is also sent in PHASE_COMPLETE
LandRequested_FromLandOn(phase) == phase >= PHASE_LAND

\* case PHASE_LAND sends the AUTO.LAND set-mode request
LandRequested(phase) == phase = PHASE_LAND

\* variant: setpoints are published in PHASE_TAKEOFF only
ShouldPublish_TakeoffOnly(phase) == phase < PHASE_FIGURE8

\* variant: the comparison is <= instead of <
ShouldPublish_ThroughLand(phase) == phase <= PHASE_LAND

\* if (current_phase < PHASE_LAND) local_pos_pub.publish(pose)
ShouldPublish(phase) == phase < PHASE_LAND

\* variant: case PHASE_LAND assigns last_request = ros::Time::now()
LastRequestAfterLand_Updated(land, age) == IF land THEN 0 ELSE age

\* case PHASE_LAND does not assign last_request; age is now - last_request
LastRequestAfterLand(land, age) == age

\* variant: while(ros::ok() && current_phase != PHASE_COMPLETE)
LoopContinues_UntilComplete(phase) == phase # PHASE_COMPLETE

\* while(ros::ok()): the loop condition does not look at the phase
LoopContinues(phase) == TRUE

\* variant: the pose keeps the zero position of its constructor
InitialPose_Zero == [x |-> 0, y |-> 0, z |-> 0]

\* pose.pose.position = (0, 0, TAKEOFF_Z) before the warm-up
InitialPose == [x |-> 0, y |-> 0, z |-> TAKEOFF_Z]

\* the commands and the state one iteration computes from the status st it
\* reads, up to the publish: d0, d1 and resp as in MainLoopIteration
LoopStep(st, phase, p, lra, psa, d0, d1, resp) ==
    LET until_call == d0 + d1
        req == Arbitrate(st, lra, lra + d0)
        lr1 == LastRequestAfter(req, resp, lra + until_call)
        ps1 == PhaseStartAfterRequest(req, resp, psa + until_call)
        eval == PhaseEvaluated(st)
        time_in_phase == ps1
        phase2 == IF eval THEN PhaseAfter(phase, time_in_phase) ELSE phase
        pose2 == IF eval THEN PoseAfter(phase, time_in_phase, p) ELSE p
        ps2 == IF eval THEN PhaseStartAfterSwitch(phase, time_in_phase, ps1) ELSE ps1
        land == eval /\ LandRequested(phase)
    IN  [request |-> req,
         land |-> land,
         evaluated |-> eval,
         current_phase |-> phase2,
         pose |-> pose2,
         last_request_age |-> LastRequestAfterLand(land, lr1),
         phase_start_age |-> ps2,
         published |-> IF ShouldPublish(phase2) THEN << pose2 >> ELSE << >>]

\* ros::spinOnce(): state_cb stores every queued message, the last one stays
SpinOnce(st) == {st} \cup StateMsgs

\* --------------------------------------------------------- model ranges
\* first tick count at which the Figure8 exit condition holds
Figure8Ticks ==
    CHOOSE n \in 1..((2 * TAKEOFF_DURATION) \div TickMs) : Figure8Done(n) /\ ~Figure8Done(n - 1)

RequestAgeCap == (REQUEST_PERIOD \div TickMs) + 1

\* variant: last_request keeps its default value, the zero time
LastRequestAtLoopStart_Unset == RequestAgeCap

\* ros::Time last_request = ros::Time::now() after the warm-up: its age then
LastRequestAtLoopStart == 0
PhaseAgeCap == Figure8Ticks + MaxStep

Requests == {"NONE", "OFFBOARD", "ARM"}

TypeOK ==
    /\ pc \in {"connect", "warmup", "loop", "done"}
    /\ i \in 0..WARMUP_ITERATIONS
    /\ current_state \in [connected : BOOLEAN, armed : BOOLEAN, mode : Modes \cup {""}]
    /\ current_phase \in PHASE_TAKEOFF..PHASE_COMPLETE
    /\ pose \in [x : Int, y : Int, z : Int]
    /\ last_request_age \in 0..RequestAgeCap
    /\ phase_start_age \in 0..PhaseAgeCap
    /\ request \in Requests
    /\ response \in BOOLEAN
    /\ land_request \in BOOLEAN
    /\ land_response \in BOOLEAN
    /\ publish_count \in 0..1
    /\ retest_delay \in 0..MaxStep
    /\ call_time \in 0..MaxStep
    /\ elapsed \in 0..MaxStep
    /\ command_age \in 0..RequestAgeCap
    /\ gated_age \in 0..RequestAgeCap
    /\ figure8_age \in 0..PhaseAgeCap
    /\ figure8_steady \in BOOLEAN
    /\ land_calls \in 0..2
    /\ failures \in 0..MaxFailures
    /\ published \in Seq([x : Int, y : Int, z : Int])
    /\ Len(published) = publish_count
    /\ ros_ok \in BOOLEAN
    /\ connected_seen \in BOOLEAN
    /\ loop_age \in 0..RequestAgeCap
    /\ takeoff_evals \in 0..2
    /\ figure8_time \in 0..required_figure8_duration

\* ------------------------------------------------------------------- Init
\* globals as constructed: current_state is a default mavros_msgs::State,
\* current_phase = PHASE_TAKEOFF, the timestamps are zero
Init ==
    /\ pc = "connect"
    /\ i = 0
    /\ current_state = [connected |-> FALSE, armed |-> FALSE, mode |-> ""]
    /\ current_phase = PHASE_TAKEOFF
    /\ pose = [x |-> 0, y |-> 0, z |-> 0]
    /\ last_request_age = 0
    /\ phase_start_age = 0
    /\ request = "NONE"
    /\ response = FALSE
    /\ land_request = FALSE
    /\ land_response = FALSE
    /\ publish_count = 0
    /\ retest_delay = 0
    /\ call_time = 0
    /\ elapsed = 0
    /\ command_age = RequestAgeCap
    /\ gated_age = RequestAgeCap
    /\ figure8_age = 0
    /\ figure8_steady = FALSE
    /\ land_calls = 0
    /\ failures = 0
    /\ published = << >>
    /\ ros_ok = TRUE
    /\ connected_seen = FALSE
    /\ loop_age = 0
    /\ takeoff_evals = 0
    /\ figure8_time = 0

\* ---------------------------------------------------------------- actions
Idle == << request, response, land_request, land_response, retest_delay,
           call_time, elapsed,
           command_age, gated_age, figure8_age, figure8_steady, land_calls,
           failures, takeoff_evals, figure8_time >>

\* while(ros::ok() && !current_state.connected){ spinOnce; sleep }
ConnectIteration ==
    /\ pc = "connect"
    /\ ~current_state.connected
    /\ current_state' \in SpinOnce(current_state)
    /\ connected_seen' = (connected_seen \/ current_state'.connected)
    /\ publish_count' = 0
    /\ published' = << >>
    /\ UNCHANGED << pc, i, current_phase, pose, last_request_age, phase_start_age,
                    ros_ok, loop_age >>
    /\ UNCHANGED Idle

\* the connection loop ends; pose is set to (0, 0, TAKEOFF_Z)
ConnectDone ==
    /\ pc = "connect"
    /\ current_state.connected
    /\ pose' = InitialPose
    /\ pc' = "warmup"
    /\ i' = 0
    /\ publish_count' = 0
    /\ published' = << >>
    /\ UNCHANGED << current_state, current_phase, last_request_age, phase_start_age,
                    ros_ok, connected_seen, loop_age >>
    /\ UNCHANGED Idle

\* for(int i = 0; ros::ok() && i < 100; i++){ publish; spinOnce; sleep }
WarmupIteration ==
    /\ pc = "warmup"
    /\ i < WARMUP_ITERATIONS
    /\ publish_count' = 1
    /\ published' = << pose >>
    /\ current_state' \in SpinOnce(current_state)
    /\ connected_seen' = (connected_seen \/ current_state'.connected)
    /\ i' = i + 1
    /\ UNCHANGED << pc, current_phase, pose, last_request_age, phase_start_age,
                    ros_ok, loop_age >>
    /\ UNCHANGED Idle

\* the warm-up ends; last_request = mission_start_time = phase_start_time = now
WarmupDone ==
    /\ pc = "warmup"
    /\ i >= WARMUP_ITERATIONS
    /\ last_request_age' = LastRequestAtLoopStart
    /\ phase_start_age' = 0
    /\ loop_age' = 0
    /\ pc' = "loop"
    /\ publish_count' = 0
    /\ published' = << >>
    /\ UNCHANGED << i, current_state, current_phase, pose, ros_ok, connected_seen >>
    /\ UNCHANGED Idle

\* one iteration of while(ros::ok()){ ... }: command arbitration, phase
\* evaluation, publish, spinOnce, sleep.  resp / lresp are the outcomes of the
\* service calls; d0 is the ticks between the clock read of the first window
\* test and the one of the else branch (time that passes there without
\* leading to an arm request has the effect of time passing later and is
\* counted in d2), d1 the ticks the OFFBOARD/arm call blocks, d2 the ticks of
\* the rest of the iteration (AUTO.LAND call and rate.sleep()).
MainLoopIteration ==
    /\ pc = "loop"
    /\ \E d0 \in 0..MaxStep, d1 \in 0..MaxStep, d2 \in 0..MaxStep,
          resp \in BOOLEAN, lresp \in BOOLEAN :
        /\ d0 + d1 + d2 <= MaxStep
        /\ \E step \in {LoopStep(current_state, current_phase, pose, last_request_age,
                                  phase_start_age, d0, d1, resp)} :
            LET req == step.request
                eval == step.evaluated
                phase2 == step.current_phase
                land == step.land
            IN  /\ (req # "ARM") => d0 = 0
                /\ (req = "NONE") => (d1 = 0 /\ ~resp)
                /\ ~land => ~lresp
                /\ current_phase' = phase2
                /\ pose' = step.pose
                /\ last_request_age' = Sat(step.last_request_age + d2, RequestAgeCap)
                /\ phase_start_age' = Sat(step.phase_start_age + d2, PhaseAgeCap)
                /\ request' = req
                /\ response' = resp
                /\ land_request' = land
                /\ land_response' = lresp
                /\ publish_count' = Len(step.published)
                /\ published' = step.published
                /\ retest_delay' = d0
                /\ call_time' = d1
                /\ elapsed' = d0 + d1 + d2
                /\ command_age' = IF land THEN d2
                                  ELSE IF req # "NONE" THEN d1 + d2
                                  ELSE Sat(command_age + d0 + d1 + d2, RequestAgeCap)
                /\ gated_age' = IF req # "NONE" THEN d1 + d2
                                ELSE Sat(gated_age + d0 + d1 + d2, RequestAgeCap)
                /\ figure8_age' =
                      CASE current_phase = PHASE_TAKEOFF /\ phase2 = PHASE_FIGURE8 -> d2
                        [] current_phase = PHASE_FIGURE8 /\ phase2 = PHASE_FIGURE8 ->
                              Sat(figure8_age + d0 + d1 + d2, PhaseAgeCap)
                        [] current_phase = PHASE_FIGURE8 /\ phase2 = PHASE_LAND ->
                              Sat(figure8_age + d0 + d1, PhaseAgeCap)
                        [] current_phase = PHASE_LAND /\ phase2 = PHASE_LAND -> figure8_age
                        [] OTHER -> 0
                /\ figure8_steady' =
                      CASE current_phase = PHASE_TAKEOFF /\ phase2 = PHASE_FIGURE8 -> TRUE
                        [] current_phase = PHASE_FIGURE8 /\ phase2 \in {PHASE_FIGURE8, PHASE_LAND} ->
                              figure8_steady /\ eval
                        [] current_phase = PHASE_LAND /\ phase2 = PHASE_LAND -> figure8_steady
                        [] OTHER -> FALSE
                /\ land_calls' = IF land THEN Sat(land_calls + 1, 2) ELSE land_calls
                /\ failures' = IF req # "NONE" /\ ~resp THEN Sat(failures + 1, MaxFailures)
                               ELSE failures
                /\ loop_age' = Sat(loop_age + d0 + d1 + d2, RequestAgeCap)
                /\ takeoff_evals' = IF current_phase # PHASE_TAKEOFF THEN 0
                                    ELSE IF eval THEN Sat(takeoff_evals + 1, 2)
                                    ELSE takeoff_evals
                /\ pc' = IF LoopContinues(phase2) THEN "loop" ELSE "done"
                /\ current_state' \in SpinOnce(current_state)
                /\ connected_seen' = (connected_seen \/ current_state'.connected)
    /\ UNCHANGED << i, ros_ok, figure8_time >>

\* ros::ok() turns false (shutdown signal): the loops end and main returns
Shutdown ==
    /\ pc # "done"
    /\ pc' = "done"
    /\ ros_ok' = FALSE
    /\ UNCHANGED << i, current_state, current_phase, pose, last_request_age,
                    phase_start_age, publish_count, published, connected_seen,
                    loop_age >>
    /\ UNCHANGED Idle

Next ==
    \/ ConnectIteration
    \/ ConnectDone
    \/ WarmupIteration
    \/ WarmupDone
    \/ MainLoopIteration
    \/ Shutdown

Spec == Init /\ [][Next]_vars

\* ------------------------------------------------------------- fairness
\* a step that is one iteration of the main loop
IterStep == pc = "loop" /\ pc' = "loop"

\* a main-loop iteration that takes time; the steps of Next from pc = "loop"
\* to pc = "loop" are those of MainLoopIteration
TimedIteration == IterStep /\ elapsed' > 0

\* ros::Rate::sleep returns and the clock moves on: while the main loop runs,
\* iterations that take time keep happening. This is weak fairness of
\* MainLoopIteration /\ elapsed' > 0, written with pc = "loop" for its
\* ENABLED (such an iteration is possible in every state of the loop,
\* MaxStep being at least 1)
MainLoopFairness ==
    []<>(pc # "loop") \/ []<><<TimedIteration>>_vars

\* the program runs: each loop of main goes on to its next step unless the
\* node is shut down
SpecLive ==
    /\ Spec
    /\ WF_vars(ConnectIteration)
    /\ WF_vars(ConnectDone)
    /\ WF_vars(WarmupIteration)
    /\ WF_vars(WarmupDone)
    /\ MainLoopFairness

\* ------------------------------------------------- the trajectory alone
\* the loop is in phase Figure8 with any time in phase from 0 to
\* required_figure8_duration, in steps of one millisecond
InitTrajectory ==
    /\ figure8_time \in 0..required_figure8_duration
    /\ pc = "loop"
    /\ i = WARMUP_ITERATIONS
    /\ current_state = [connected |-> TRUE, armed |-> TRUE, mode |-> "OFFBOARD"]
    /\ current_phase = PHASE_FIGURE8
    /\ pose = InitialPose
    /\ last_request_age = 0
    /\ phase_start_age = 0
    /\ request = "NONE"
    /\ response = FALSE
    /\ land_request = FALSE
    /\ land_response = FALSE
    /\ publish_count = 0
    /\ published = << >>
    /\ retest_delay = 0
    /\ call_time = 0
    /\ elapsed = 0
    /\ command_age = RequestAgeCap
    /\ gated_age = RequestAgeCap
    /\ figure8_age = 0
    /\ figure8_steady = TRUE
    /\ land_calls = 0
    /\ failures = 0
    /\ ros_ok = TRUE
    /\ connected_seen = TRUE
    /\ loop_age = RequestAgeCap
    /\ takeoff_evals = 0

\* case PHASE_FIGURE8 computes the target for figure8_time and the iteration
\* publishes it
Figure8Target ==
    /\ pc = "loop"
    /\ current_phase = PHASE_FIGURE8
    /\ pose' = Figure8PoseAt(figure8_time)
    /\ published' = << pose' >>
    /\ publish_count' = 1
    /\ pc' = "done"
    /\ UNCHANGED << i, current_state, current_phase, last_request_age,
                    phase_start_age, ros_ok, connected_seen, loop_age >>
    /\ UNCHANGED Idle

NextTrajectory == Figure8Target

SpecTrajectory == InitTrajectory /\ [][NextTrajectory]_vars

\* ------------------------------------------------------------- properties
\* the status the iteration reads asks for phase evaluation
Evaluated == current_state.armed /\ current_state.mode = "OFFBOARD"

\* C1: the initial phase is Takeoff and every change of current_phase goes to
\* the immediate successor (no phase skipped, none entered a second time).
C1_PhaseOrder ==
    /\ current_phase = PHASE_TAKEOFF
    /\ [][/\ current_phase' \in PHASE_TAKEOFF..PHASE_COMPLETE
          /\ (current_phase' # current_phase => current_phase' = current_phase + 1)]_vars

C1_Witness == current_phase = PHASE_COMPLETE /\ land_calls = 1

\* C2: from the iteration that sets the phase to Land on (phase Land or
\* Complete) the publish count of every iteration is 0.
C2_NoPublishFromLand == current_phase >= PHASE_LAND => publish_count = 0

\* an iteration after the one that reached Complete (no AUTO.LAND request in it)
C2_Witness ==
    /\ pc = "loop"
    /\ current_phase = PHASE_COMPLETE
    /\ ~land_request
    /\ publish_count = 0

\* C3 as stated: any service request (OFFBOARD, arm or AUTO.LAND) comes at
\* least 5.0 s after the previous service request.
C3_AllRequestsSpaced ==
    [][IterStep /\ (request' # "NONE" \/ land_request')
          => DurationGE(command_age + retest_delay', REQUEST_PERIOD)]_vars

\* C3 amended: an OFFBOARD or arm request comes more than 5.0 s after the
\* previous OFFBOARD or arm request; the AUTO.LAND request is not throttled.
C3_GatedRequestsSpaced ==
    [][IterStep /\ request' # "NONE"
          => DurationGT(gated_age + retest_delay', REQUEST_PERIOD)]_vars

\* a request issued after at least one earlier (failed) request
C3_Witness == pc = "loop" /\ request # "NONE" /\ response /\ failures >= 1

\* the request the arbitration rule of the spec selects, with its
\* "at least 5.0 s" window test; each test uses the time elapsed since the
\* last command attempt when the test is made
ClaimedArbitration ==
    IF current_state.mode # "OFFBOARD" /\ DurationGE(last_request_age, REQUEST_PERIOD)
    THEN "OFFBOARD"
    ELSE IF /\ ~current_state.armed
            /\ DurationGE(last_request_age + retest_delay', REQUEST_PERIOD)
    THEN "ARM"
    ELSE "NONE"

\* the same rule with the window test "more than 5.0 s"
StrictArbitration ==
    IF current_state.mode # "OFFBOARD" /\ DurationGT(last_request_age, REQUEST_PERIOD)
    THEN "OFFBOARD"
    ELSE IF /\ ~current_state.armed
            /\ DurationGT(last_request_age + retest_delay', REQUEST_PERIOD)
    THEN "ARM"
    ELSE "NONE"

\* C4 as stated: an iteration issues exactly the request selected by the rule
\* "mode not OFFBOARD and >= 5.0 s: OFFBOARD; else not armed and >= 5.0 s: arm;
\* else none".
C4_ArbitrationAtLeast == [][IterStep => request' = ClaimedArbitration]_vars

\* C4 amended: the same mutually exclusive rule, with "more than 5.0 s" since
\* the last command attempt in both tests.
C4_ArbitrationStrict == [][IterStep => request' = StrictArbitration]_vars

\* an arm request was issued (the second branch of the rule was taken)
C4_Witness == pc = "loop" /\ request = "ARM" /\ current_state.mode = "OFFBOARD"

\* C5 as stated: when the phase is set to Land, Figure8 has lasted at least
\* required_figure8_duration and less than that plus the period of the
\* previous iteration.
C5_Figure8Exact ==
    [][IterStep /\ current_phase = PHASE_FIGURE8 /\ current_phase' = PHASE_LAND
          => /\ DurationGT(figure8_age, required_figure8_duration)
             /\ ~DurationGT(figure8_age - elapsed, required_figure8_duration)]_vars

\* C5 amended: Figure8 always lasts at least required_figure8_duration; it
\* lasts less than that plus one iteration period when every iteration of the
\* phase found the vehicle armed and in OFFBOARD mode.
C5_Figure8AtLeast ==
    [][IterStep /\ current_phase = PHASE_FIGURE8 /\ current_phase' = PHASE_LAND
          => /\ DurationGT(figure8_age, required_figure8_duration)
             /\ (figure8_steady =>
                    ~DurationGT(figure8_age - elapsed, required_figure8_duration))]_vars

\* Land was set after a Figure8 phase in which every iteration was evaluated
C5_Witness ==
    /\ current_phase = PHASE_LAND
    /\ figure8_steady
    /\ DurationGT(figure8_age, required_figure8_duration)

\* phase_start_age after an iteration that did / did not reset phase_start_time
ResetAge == elapsed' - call_time' - retest_delay'
KeptAge == Sat(phase_start_age + elapsed', PhaseAgeCap)

\* C6 as stated: phase_start_time is reset to the current time on every phase
\* transition and on every successful OFFBOARD request, and by nothing else.
C6_ResetOnEveryTransition ==
    [][IterStep =>
          phase_start_age' =
              IF \/ current_phase' # current_phase
                 \/ (request' = "OFFBOARD" /\ response')
              THEN ResetAge ELSE KeptAge]_vars

\* C6 amended: phase_start_time is reset to the current time on the
\* Takeoff -> Figure8 transition and on every successful OFFBOARD request;
\* nothing else changes it (not Figure8 -> Land, not Land -> Complete, not a
\* failed OFFBOARD request, not an arm request).
C6_ResetOnFigure8AndOffboard ==
    [][IterStep =>
          phase_start_age' =
              IF \/ (current_phase = PHASE_TAKEOFF /\ current_phase' = PHASE_FIGURE8)
                 \/ (request' = "OFFBOARD" /\ response')
              THEN ResetAge ELSE KeptAge]_vars

\* a successful OFFBOARD request late in a phase has just reset the timer
C6_Witness ==
    /\ pc = "loop"
    /\ request = "OFFBOARD"
    /\ response
    /\ phase_start_age = elapsed - call_time - retest_delay
    /\ figure8_age > phase_start_age

\* C7: a phase-evaluated Figure8 iteration with t >= 2*pi/ANGULAR_SPEED sets
\* the phase to Land and leaves the target at (0, 0, TAKEOFF_Z); a Figure8
\* iteration with t below the threshold leaves the phase Figure8.
C7_LandAtLoopEnd ==
    [][IterStep /\ current_phase = PHASE_FIGURE8
          => /\ (Evaluated /\ DurationGT(phase_start_age, required_figure8_duration)
                    => /\ current_phase' = PHASE_LAND
                       /\ pose' = [x |-> 0, y |-> 0, z |-> TAKEOFF_Z])
             /\ (~DurationGT(phase_start_age, required_figure8_duration)
                    => current_phase' = PHASE_FIGURE8)]_vars

C7_Witness ==
    /\ current_phase = PHASE_LAND
    /\ pose = [x |-> 0, y |-> 0, z |-> TAKEOFF_Z]
    /\ DurationGT(figure8_age, required_figure8_duration)

\* C8: AUTO.LAND is requested at most once in a run, only by an iteration
\* that starts in phase Land, and that iteration ends in phase Complete
\* whatever the outcome of the call.
C8_LandOneShot ==
    /\ [](land_calls <= 1)
    /\ [][IterStep /\ land_request'
            => current_phase = PHASE_LAND /\ current_phase' = PHASE_COMPLETE]_vars

\* the AUTO.LAND call failed, the phase is Complete, and a later iteration
\* has run without another request
C8_Witness ==
    /\ pc = "loop"
    /\ current_phase = PHASE_COMPLETE
    /\ land_calls = 1
    /\ land_request
    /\ ~land_response

\* C9: a failed OFFBOARD or arm request leaves phase, target pose and
\* phase_start_time unchanged, and whatever the number of earlier failures
\* and whatever the phase, the request is issued again once more than 5 s
\* have passed while its status condition holds.
C9_FailedRequestRetried ==
    [][IterStep =>
          /\ (request' # "NONE" /\ ~response'
                => /\ current_phase' = current_phase
                   /\ pose' = pose
                   /\ phase_start_age' = KeptAge)
          /\ (current_state.mode # "OFFBOARD"
                /\ DurationGT(last_request_age, REQUEST_PERIOD)
                => request' = "OFFBOARD")
          /\ (current_state.mode = "OFFBOARD" /\ ~current_state.armed
                /\ DurationGT(last_request_age, REQUEST_PERIOD)
                => request' = "ARM")]_vars

\* a request fails again after MaxFailures earlier failures, in phase Complete
C9_Witness ==
    /\ pc = "loop"
    /\ request # "NONE"
    /\ ~response
    /\ failures = MaxFailures
    /\ current_phase = PHASE_COMPLETE

\* C10: an iteration whose status is not armed or not in OFFBOARD mode leaves
\* current_phase and the target pose unchanged and issues no AUTO.LAND request.
C10_NoEvaluationUnlessArmedOffboard ==
    [][IterStep /\ ~Evaluated
          => /\ current_phase' = current_phase
             /\ pose' = pose
             /\ ~land_request']_vars

\* the Takeoff timer is far past 15 s and the phase is still Takeoff
C10_Witness ==
    /\ pc = "loop"
    /\ current_phase = PHASE_TAKEOFF
    /\ phase_start_age = PhaseAgeCap
    /\ elapsed = 0

\* C11: every main-loop iteration that ends in Takeoff or Figure8 publishes
\* exactly one setpoint, the target pose of the end of the iteration, whatever
\* the status (armed, mode, connected) and whatever request was issued.
C11_PublishEveryIteration ==
    [][IterStep /\ current_phase' < PHASE_LAND
          => /\ publish_count' = 1
             /\ published' = << pose' >>]_vars

\* an iteration in Figure8 that issued an OFFBOARD request (its status was
\* not in OFFBOARD mode) published its setpoint
C11_Witness ==
    /\ pc = "loop"
    /\ current_phase = PHASE_FIGURE8
    /\ request = "OFFBOARD"
    /\ publish_count = 1
    /\ published = << pose >>

\* C12: every setpoint published while the phase is Takeoff, in the warm-up
\* and in the main loop, armed or not, is (0, 0, TAKEOFF_Z).
C12_TakeoffSetpoint ==
    current_phase = PHASE_TAKEOFF
        => \A k \in 1..Len(published) :
              published[k] = [x |-> 0, y |-> 0, z |-> TAKEOFF_Z]

\* a setpoint published in Takeoff by a main-loop iteration long after the
\* 15 s have passed
C12_Witness ==
    /\ pc = "loop"
    /\ current_phase = PHASE_TAKEOFF
    /\ phase_start_age = PhaseAgeCap
    /\ published # << >>

\* C13: nothing is published and no request is issued before a status with
\* connected = true was received; no request is issued before the 100 warm-up
\* setpoints were published; every request of the main loop comes more than
\* 5 s after the end of the warm-up.
C13_StartupOrder ==
    /\ []((published # << >> \/ request # "NONE" \/ land_request) => connected_seen)
    /\ []((request # "NONE" \/ land_request) => i = WARMUP_ITERATIONS)
    /\ [][IterStep /\ request' # "NONE"
            => DurationGT(loop_age + retest_delay', REQUEST_PERIOD)]_vars
    /\ [][IterStep /\ land_request'
            => DurationGT(loop_age + retest_delay' + call_time', REQUEST_PERIOD)]_vars

\* an OFFBOARD request issued after the warm-up, more than 5 s after its end
C13_Witness ==
    /\ pc = "loop"
    /\ request = "OFFBOARD"
    /\ loop_age = RequestAgeCap
    /\ i = WARMUP_ITERATIONS
    /\ connected_seen

\* C14: inside the main loop the connected flag of the status has no effect:
\* from every state of the loop, with any timing and any call outcome, the
\* iteration computes the same requests, the same phase, pose and timers and
\* publishes the same setpoints whether the status it reads says connected
\* or not.
C14_ConnectedIgnoredInLoop ==
    pc = "loop"
        => \A c \in BOOLEAN, d0 \in 0..MaxStep, resp \in BOOLEAN :
            \A d1 \in 0..(MaxStep - d0) :
              LoopStep([current_state EXCEPT !.connected = c], current_phase, pose,
                       last_request_age, phase_start_age, d0, d1, resp)
                = LoopStep(current_state, current_phase, pose,
                           last_request_age, phase_start_age, d0, d1, resp)

\* the status says not connected, armed and OFFBOARD at the top of an
\* iteration that will send AUTO.LAND
C14_Witness ==
    /\ pc = "loop"
    /\ ~current_state.connected
    /\ current_state.armed
    /\ current_state.mode = "OFFBOARD"
    /\ current_phase = PHASE_LAND

\* C15: from Takeoff the phase becomes Figure8 exactly in the iterations that
\* are phase-evaluated with at least 15.0 s since phase_start_time (hence in
\* the first of them), and that iteration sets phase_start_time to the time
\* of the switch.
C15_TakeoffToFigure8 ==
    [][IterStep /\ current_phase = PHASE_TAKEOFF
          => /\ current_phase' = PHASE_FIGURE8
                  <=> (Evaluated /\ DurationGE(phase_start_age + retest_delay' + call_time',
                                               TAKEOFF_DURATION))
             /\ current_phase' = PHASE_FIGURE8 => phase_start_age' = ResetAge]_vars

\* the iteration just entered Figure8 and reset the timer
C15_Witness ==
    /\ pc = "loop"
    /\ current_phase = PHASE_FIGURE8
    /\ takeoff_evals >= 1
    /\ phase_start_age = 0
    /\ elapsed = 0

C17_ArmOnlyInOffboard ==
    [][IterStep /\ request' = "ARM" => current_state.mode = "OFFBOARD"]_vars

C19_TakeoffTimedFromPhaseStart ==
    /\ [][IterStep /\ current_phase = PHASE_TAKEOFF /\ Evaluated /\ takeoff_evals = 0
                   /\ DurationGE(phase_start_age + retest_delay' + call_time',
                                 TAKEOFF_DURATION)
            => current_phase' = PHASE_FIGURE8]_vars
    /\ [][IterStep /\ current_phase' = PHASE_TAKEOFF
                   /\ ~(request' = "OFFBOARD" /\ response')
            => phase_start_age' = KeptAge]_vars

\* Figure8 entered by the only phase-evaluated iteration of Takeoff
C19_Witness ==
    /\ pc = "loop"
    /\ current_phase = PHASE_FIGURE8
    /\ takeoff_evals = 1

\* C20: if from some point on the loop runs with a status that stays armed
\* and OFFBOARD, the phase eventually is Complete with exactly one AUTO.LAND
\* request issued; the phase is never Complete with another number of
\* AUTO.LAND requests; an iteration whose status is not armed and OFFBOARD
\* keeps the phase; the loop ends only when ros::ok() is false.
C20_Progress ==
    /\ <>[](pc = "loop" /\ Evaluated)
          => <>(current_phase = PHASE_COMPLETE /\ land_calls = 1)
    /\ [](current_phase = PHASE_COMPLETE => land_calls = 1)
    /\ [][IterStep /\ ~Evaluated => current_phase' = current_phase]_vars
    /\ [](pc = "done" => ~ros_ok)

\* the loop keeps running in Complete, armed and OFFBOARD, after its single
\* AUTO.LAND request
C20_Witness ==
    /\ pc = "loop"
    /\ ros_ok
    /\ current_phase = PHASE_COMPLETE
    /\ land_calls = 1
    /\ ~land_request
    /\ Evaluated

====
